---- MODULE Spec2Model ----
(***************************************************************************)
(* Model of src/app.js: the GET /api/student-data handler and the          *)
(* reshaping functions it calls (processStudentData and its helpers).      *)
(*                                                                         *)
(* JavaScript values are represented as follows.                           *)
(*   string     a sequence of one-character strings, "ab" is <<"a","b">>   *)
(*   undefined  UNDEF, a sequence holding one element that is no character *)
(*   row        a sequence of cells (strings); null is NULLROW             *)
(*   number     a record [nan, m, e] standing for m * 10^(-e), or NaN      *)
(*   array      a sequence; object: a record                               *)
(***************************************************************************)
EXTENDS Integers, Sequences, FiniteSets, TLC

VARIABLES pc, admission, fetched, response, call, ret

vars == <<pc, admission, fetched, response, call, ret>>

-----------------------------------------------------------------------------
(* Strings *)

UNDEF == <<"undefined">>

NULLROW == << <<"null">> >>

UpperChars == <<"A","B","C","D","E","F","G","H","I","J","K","L","M",
                "N","O","P","Q","R","S","T","U","V","W","X","Y","Z">>

LowerChars == <<"a","b","c","d","e","f","g","h","i","j","k","l","m",
                "n","o","p","q","r","s","t","u","v","w","x","y","z">>

DigitChars == <<"0","1","2","3","4","5","6","7","8","9">>

UpperSet == {UpperChars[i] : i \in 1..26}

LowerSet == {LowerChars[i] : i \in 1..26}

DigitSet == {DigitChars[i] : i \in 1..10}

ToLowerMap == [c \in UpperSet |-> LowerChars[CHOOSE i \in 1..26 : UpperChars[i] = c]]

ToUpperMap == [c \in LowerSet |-> UpperChars[CHOOSE i \in 1..26 : LowerChars[i] = c]]

DigitValMap == [c \in DigitSet |-> (CHOOSE i \in 1..10 : DigitChars[i] = c) - 1]

IsUpper(c) == c \in UpperSet

IsLower(c) == c \in LowerSet

IsDigit(c) == c \in DigitSet

IsSpace(c) == c = " "

DigitVal(c) == DigitValMap[c]

LowerChar(c) == IF IsUpper(c) THEN ToLowerMap[c] ELSE c

UpperChar(c) == IF IsLower(c) THEN ToUpperMap[c] ELSE c

toLowerCase(s) == [i \in 1..Len(s) |-> LowerChar(s[i])]

endsWith(s, suf) ==
    /\ Len(s) >= Len(suf)
    /\ SubSeq(s, Len(s) - Len(suf) + 1, Len(s)) = suf

startsWith(s, pre) ==
    /\ Len(s) >= Len(pre)
    /\ SubSeq(s, 1, Len(pre)) = pre

\* s.substring(0, s.length - n)
dropLast(s, n) == SubSeq(s, 1, Len(s) - n)

\* position of the first c in s, 0 when there is none
indexOfChar(s, c) ==
    IF \E i \in 1..Len(s) : s[i] = c
    THEN CHOOSE i \in 1..Len(s) : s[i] = c /\ \A j \in 1..(i-1) : s[j] # c
    ELSE 0

\* s.replace('_', ' '): a string pattern replaces the first occurrence only
replaceFirstUnderscore(s) ==
    LET k == indexOfChar(s, "_")
    IN IF k = 0 THEN s ELSE [i \in 1..Len(s) |-> IF i = k THEN " " ELSE s[i]]

capitalizeFirstLetter(s) ==
    IF Len(s) = 0 THEN s ELSE <<UpperChar(s[1])>> \o SubSeq(s, 2, Len(s))

RECURSIVE trimStart(_)
trimStart(s) == IF Len(s) > 0 /\ IsSpace(s[1]) THEN trimStart(Tail(s)) ELSE s

RECURSIVE trimEnd(_)
trimEnd(s) == IF Len(s) > 0 /\ IsSpace(s[Len(s)]) THEN trimEnd(SubSeq(s, 1, Len(s) - 1)) ELSE s

trim(s) == trimEnd(trimStart(s))

\* JavaScript truthiness of a cell: undefined and '' are falsy
Truthy(c) == c # UNDEF /\ c # <<>>

\* row[i] with JavaScript's zero-based index i; out of range reads undefined
At(row, i) == IF i + 1 \in 1..Len(row) THEN row[i + 1] ELSE UNDEF

\* headers.findIndex(h => h.toLowerCase() === name); -1 when there is none
findIndex(headers, name) ==
    IF \E i \in 1..Len(headers) : toLowerCase(headers[i]) = name
    THEN (CHOOSE i \in 1..Len(headers) :
             /\ toLowerCase(headers[i]) = name
             /\ \A j \in 1..(i-1) : toLowerCase(headers[j]) # name) - 1
    ELSE -1

-----------------------------------------------------------------------------
(* Record extraction *)

ADMISSION_NO == <<"a","d","m","i","s","s","i","o","n","_","n","o">>

RECURSIVE findFrom(_, _, _, _)
findFrom(values, admissionIndex, admissionNo, i) ==
    IF i >= Len(values) THEN NULLROW
    ELSE IF values[i + 1] # NULLROW /\ At(values[i + 1], admissionIndex) = admissionNo
         THEN values[i + 1]
         ELSE findFrom(values, admissionIndex, admissionNo, i + 1)

findStudentByAdmissionNo_FromHeader(values, headers, admissionNo) ==
    LET admissionIndex == findIndex(headers, ADMISSION_NO)
    IN IF admissionIndex = -1 THEN NULLROW
       ELSE findFrom(values, admissionIndex, admissionNo, 0)

findStudentByAdmissionNo_FirstColumn(values, headers, admissionNo) ==
    LET admissionIndex == findIndex(headers, ADMISSION_NO)
    IN IF admissionIndex = -1 THEN findFrom(values, 0, admissionNo, 1)
       ELSE findFrom(values, admissionIndex, admissionNo, 1)

findStudentByAdmissionNo(values, headers, admissionNo) ==
    LET admissionIndex == findIndex(headers, ADMISSION_NO)
    IN IF admissionIndex = -1 THEN NULLROW
       ELSE findFrom(values, admissionIndex, admissionNo, 1)

-----------------------------------------------------------------------------
(* Numbers: m * 10^(-e), or NaN.  The grammar covered is the one the sheet *)
(* cells of the model use: optional blanks, optional sign, decimal digits, *)
(* optional fraction; anything after that prefix is ignored, as in JS.     *)

NaN == [nan |-> TRUE, m |-> 0, e |-> 0]

Num(m, e) == [nan |-> FALSE, m |-> m, e |-> e]

Zero == Num(0, 0)

RECURSIVE Pow10(_)
Pow10(n) == IF n = 0 THEN 1 ELSE 10 * Pow10(n - 1)

RECURSIVE Normalize(_)
Normalize(n) ==
    IF n.nan THEN NaN
    ELSE IF n.m = 0 THEN Zero
    ELSE IF n.e > 0 /\ n.m % 10 = 0 THEN Normalize(Num(n.m \div 10, n.e - 1))
    ELSE n

isNaN(n) == n.nan

\* n > 0 (false for NaN)
GreaterThanZero(n) == ~n.nan /\ n.m > 0

RECURSIVE DigitPrefixLen(_)
DigitPrefixLen(s) ==
    IF Len(s) > 0 /\ IsDigit(s[1]) THEN 1 + DigitPrefixLen(Tail(s)) ELSE 0

RECURSIVE DigitsValue(_)
DigitsValue(s) ==
    IF Len(s) = 0 THEN 0 ELSE 10 * DigitsValue(SubSeq(s, 1, Len(s) - 1)) + DigitVal(s[Len(s)])

SignOf(s) == IF Len(s) > 0 /\ s[1] = "-" THEN -1 ELSE 1

DropSign(s) == IF Len(s) > 0 /\ (s[1] = "-" \/ s[1] = "+") THEN Tail(s) ELSE s

\* parseInt(string): the longest signed decimal-digit prefix, NaN when empty
parseIntStr(s) ==
    LET t == DropSign(trimStart(s))
        n == DigitPrefixLen(t)
    IN IF n = 0 THEN NaN
       ELSE Normalize(Num(SignOf(trimStart(s)) * DigitsValue(SubSeq(t, 1, n)), 0))

\* parseFloat(string): the longest signed decimal prefix, NaN when empty
parseFloatStr(s) ==
    LET t  == DropSign(trimStart(s))
        n  == DigitPrefixLen(t)
        r  == SubSeq(t, n + 1, Len(t))
        f  == IF Len(r) > 0 /\ r[1] = "." THEN DigitPrefixLen(Tail(r)) ELSE 0
        ip == DigitsValue(SubSeq(t, 1, n))
        fp == DigitsValue(SubSeq(t, n + 2, n + 1 + f))
    IN IF n = 0 /\ f = 0 THEN NaN
       ELSE Normalize(Num(SignOf(trimStart(s)) * (ip * Pow10(f) + fp), f))

\* parseInt(cell): undefined is converted to the string "undefined" first
parseInt(c) == IF c = UNDEF THEN NaN ELSE parseIntStr(c)

parseFloat(c) == IF c = UNDEF THEN NaN ELSE parseFloatStr(c)

\* parseInt(cell || 0) and parseFloat(cell || 0)
parseIntOr0(c) == IF Truthy(c) THEN parseInt(c) ELSE Zero

parseFloatOr0(c) == IF Truthy(c) THEN parseFloat(c) ELSE Zero

-----------------------------------------------------------------------------
(* Horizontal decoder, fixed-suffix groups *)

progressSuffix == <<"_","p","r","o","g","r","e","s","s">>

gradeSuffix == <<"_","g","r","a","d","e">>

workingSuffix == <<"_","w","o","r","k","i","n","g">>

presentSuffix == <<"_","p","r","e","s","e","n","t">>

absentSuffix == <<"_","a","b","s","e","n","t">>

percentSuffix == <<"_","p","e","r","c","e","n","t">>

\* the cell of the first column named name, `dflt` when no column is
sibling(studentRow, headers, name, dflt) ==
    LET k == findIndex(headers, name)
    IN IF k # -1 THEN At(studentRow, k) ELSE dflt

progressValid_GE(progress) == ~isNaN(progress) /\ progress.m >= 0

progressValid(progress) == ~isNaN(progress) /\ GreaterThanZero(progress)

RECURSIVE subjectsLoop(_, _, _, _)
subjectsLoop(studentRow, headers, i, subjects) ==
    IF i >= Len(headers) THEN subjects
    ELSE LET header   == toLowerCase(headers[i + 1])
             subject  == dropLast(header, Len(progressSuffix))
             progress == parseFloatOr0(At(studentRow, i))
             grade    == sibling(studentRow, headers, subject \o gradeSuffix, <<>>)
         IN IF endsWith(header, progressSuffix) /\ progressValid(progress)
            THEN subjectsLoop(studentRow, headers, i + 1,
                     Append(subjects,
                            [subject  |-> capitalizeFirstLetter(replaceFirstUnderscore(subject)),
                             progress |-> progress,
                             grade    |-> grade]))
            ELSE subjectsLoop(studentRow, headers, i + 1, subjects)

processHorizontalSubjects(studentRow, headers) ==
    IF studentRow = NULLROW THEN <<>> ELSE subjectsLoop(studentRow, headers, 0, <<>>)

workingValid_Any(workingDays) == ~isNaN(workingDays)

workingValid(workingDays) == ~isNaN(workingDays) /\ GreaterThanZero(workingDays)

RECURSIVE attendanceLoop(_, _, _, _)
attendanceLoop(studentRow, headers, i, attendance) ==
    IF i >= Len(headers) THEN attendance
    ELSE LET header       == toLowerCase(headers[i + 1])
             month        == dropLast(header, Len(workingSuffix))
             workingDays  == parseIntOr0(At(studentRow, i))
             presentIndex == findIndex(headers, month \o presentSuffix)
             absentIndex  == findIndex(headers, month \o absentSuffix)
             percentIndex == findIndex(headers, month \o percentSuffix)
             present      == IF presentIndex # -1
                             THEN parseIntOr0(At(studentRow, presentIndex)) ELSE Zero
             absent       == IF absentIndex # -1
                             THEN parseIntOr0(At(studentRow, absentIndex)) ELSE Zero
             percentage   == IF percentIndex # -1
                             THEN parseFloatOr0(At(studentRow, percentIndex)) ELSE Zero
         IN IF endsWith(header, workingSuffix) /\ workingValid(workingDays)
            THEN attendanceLoop(studentRow, headers, i + 1,
                     Append(attendance,
                            [month       |-> capitalizeFirstLetter(month),
                             workingDays |-> workingDays,
                             present     |-> present,
                             absent      |-> absent,
                             percentage  |-> percentage]))
            ELSE attendanceLoop(studentRow, headers, i + 1, attendance)

processHorizontalAttendance(studentRow, headers) ==
    IF studentRow = NULLROW THEN <<>> ELSE attendanceLoop(studentRow, headers, 0, <<>>)

-----------------------------------------------------------------------------
(* Horizontal decoder, numbered-pattern groups *)

AllLower(s) == Len(s) > 0 /\ \A i \in 1..Len(s) : IsLower(s[i])

AllDigits(s) == Len(s) > 0 /\ \A i \in 1..Len(s) : IsDigit(s[i])

\* header.match(/^([a-z]+)_<kind>(\d+)$/): [a-z]+ holds no underscore, so the
\* subject is what precedes the first underscore
matchNumbered(header, kind) ==
    LET k    == indexOfChar(header, "_")
        subj == SubSeq(header, 1, k - 1)
        rest == SubSeq(header, k + 1, Len(header))
    IN /\ k > 1
       /\ AllLower(subj)
       /\ startsWith(rest, kind)
       /\ AllDigits(SubSeq(rest, Len(kind) + 1, Len(rest)))

matchSubject(header) == SubSeq(header, 1, indexOfChar(header, "_") - 1)

\* map[key] = entry: an existing key keeps its place, a new key goes last
\* (for...in visits string keys in insertion order)
mapPut(map, entry) ==
    IF \E p \in 1..Len(map) : map[p].key = entry.key
    THEN [p \in 1..Len(map) |-> IF map[p].key = entry.key THEN entry ELSE map[p]]
    ELSE Append(map, entry)

\* a companion field: set from the row when its column exists, else left unset
companion(studentRow, headers, key, suffix) ==
    sibling(studentRow, headers, key \o suffix, UNDEF)

\* activity.name && activity.name.trim() !== ''
hasName(name) == Truthy(name) /\ trim(name) # <<>>

\* value || dflt
orDefault(value, dflt) == IF Truthy(value) THEN value ELSE dflt

\* !isNaN(value) ? value : 0, an unset field being undefined and isNaN(undefined) true
numberOr0(value) == IF ~isNaN(value) THEN value ELSE Zero

RECURSIVE Concat(_)
Concat(lists) == IF Len(lists) = 0 THEN <<>> ELSE Head(lists) \o Concat(Tail(lists))

S_activity == <<"a","c","t","i","v","i","t","y">>

S_assignment == <<"a","s","s","i","g","n","m","e","n","t">>

S_test == <<"t","e","s","t">>

S_correction == <<"c","o","r","r","e","c","t","i","o","n">>

S_date == <<"_","d","a","t","e">>

S_description == <<"_","d","e","s","c","r","i","p","t","i","o","n">>

S_status == <<"_","s","t","a","t","u","s">>

S_assigned_date == <<"_","a","s","s","i","g","n","e","d","_","d","a","t","e">>

S_due_date == <<"_","d","u","e","_","d","a","t","e">>

S_remarks == <<"_","r","e","m","a","r","k","s">>

S_max_marks == <<"_","m","a","x","_","m","a","r","k","s">>

S_marks_obtained == <<"_","m","a","r","k","s","_","o","b","t","a","i","n","e","d">>

S_percentage == <<"_","p","e","r","c","e","n","t","a","g","e">>

S_grade == <<"_","g","r","a","d","e">>

S_improvements == <<"_","i","m","p","r","o","v","e","m","e","n","t","s">>

S_pending == <<"p","e","n","d","i","n","g">>

S_complete == <<"c","o","m","p","l","e","t","e">>

displaySubject(subject) == capitalizeFirstLetter(replaceFirstUnderscore(subject))

RECURSIVE activityMapLoop(_, _, _, _)
activityMapLoop(studentRow, headers, i, activityMap) ==
    IF i >= Len(headers) THEN activityMap
    ELSE LET header == toLowerCase(headers[i + 1])
         IN IF matchNumbered(header, S_activity)
            THEN activityMapLoop(studentRow, headers, i + 1,
                     mapPut(activityMap,
                            [key         |-> header,
                             subject     |-> matchSubject(header),
                             name        |-> At(studentRow, i),
                             date        |-> companion(studentRow, headers, header, S_date),
                             description |-> companion(studentRow, headers, header, S_description),
                             status      |-> companion(studentRow, headers, header, S_status)]))
            ELSE activityMapLoop(studentRow, headers, i + 1, activityMap)

activityEmit_Strict(activity) ==
    IF hasName(activity.name) /\ Truthy(activity.date)
    THEN << [subject     |-> displaySubject(activity.subject),
             activity    |-> activity.name,
             date        |-> orDefault(activity.date, <<>>),
             description |-> orDefault(activity.description, <<>>),
             status      |-> orDefault(activity.status, S_pending)] >>
    ELSE <<>>

activityEmit(activity) ==
    IF hasName(activity.name)
    THEN << [subject     |-> displaySubject(activity.subject),
             activity    |-> activity.name,
             date        |-> orDefault(activity.date, <<>>),
             description |-> orDefault(activity.description, <<>>),
             status      |-> orDefault(activity.status, S_pending)] >>
    ELSE <<>>

processHorizontalActivities(studentRow, headers) ==
    IF studentRow = NULLROW THEN <<>>
    ELSE LET activityMap == activityMapLoop(studentRow, headers, 0, <<>>)
         IN Concat([p \in 1..Len(activityMap) |-> activityEmit(activityMap[p])])

RECURSIVE assignmentMapLoop(_, _, _, _)
assignmentMapLoop(studentRow, headers, i, assignmentMap) ==
    IF i >= Len(headers) THEN assignmentMap
    ELSE LET header == toLowerCase(headers[i + 1])
         IN IF matchNumbered(header, S_assignment)
            THEN assignmentMapLoop(studentRow, headers, i + 1,
                     mapPut(assignmentMap,
                            [key          |-> header,
                             subject      |-> matchSubject(header),
                             name         |-> At(studentRow, i),
                             assignedDate |-> companion(studentRow, headers, header, S_assigned_date),
                             dueDate      |-> companion(studentRow, headers, header, S_due_date),
                             status       |-> companion(studentRow, headers, header, S_status),
                             remarks      |-> companion(studentRow, headers, header, S_remarks)]))
            ELSE assignmentMapLoop(studentRow, headers, i + 1, assignmentMap)

assignmentEmit(assignment) ==
    IF hasName(assignment.name)
    THEN << [subject      |-> displaySubject(assignment.subject),
             name         |-> assignment.name,
             assignedDate |-> orDefault(assignment.assignedDate, <<>>),
             dueDate      |-> orDefault(assignment.dueDate, <<>>),
             status       |-> orDefault(assignment.status, S_pending),
             remarks      |-> orDefault(assignment.remarks, <<>>)] >>
    ELSE <<>>

processHorizontalAssignments(studentRow, headers) ==
    IF studentRow = NULLROW THEN <<>>
    ELSE LET assignmentMap == assignmentMapLoop(studentRow, headers, 0, <<>>)
         IN Concat([p \in 1..Len(assignmentMap) |-> assignmentEmit(assignmentMap[p])])

\* a numeric companion: parsed when its column exists, else left unset
intCompanion(studentRow, headers, key, suffix) ==
    IF findIndex(headers, key \o suffix) # -1
    THEN parseInt(At(studentRow, findIndex(headers, key \o suffix)))
    ELSE NaN

floatCompanion(studentRow, headers, key, suffix) ==
    IF findIndex(headers, key \o suffix) # -1
    THEN parseFloat(At(studentRow, findIndex(headers, key \o suffix)))
    ELSE NaN

RECURSIVE testMapLoop(_, _, _, _)
testMapLoop(studentRow, headers, i, testMap) ==
    IF i >= Len(headers) THEN testMap
    ELSE LET header == toLowerCase(headers[i + 1])
         IN IF matchNumbered(header, S_test)
            THEN testMapLoop(studentRow, headers, i + 1,
                     mapPut(testMap,
                            [key           |-> header,
                             subject       |-> matchSubject(header),
                             name          |-> At(studentRow, i),
                             date          |-> companion(studentRow, headers, header, S_date),
                             maxMarks      |-> intCompanion(studentRow, headers, header, S_max_marks),
                             marksObtained |-> intCompanion(studentRow, headers, header, S_marks_obtained),
                             percentage    |-> floatCompanion(studentRow, headers, header, S_percentage),
                             grade         |-> companion(studentRow, headers, header, S_grade)]))
            ELSE testMapLoop(studentRow, headers, i + 1, testMap)

testEmit(test) ==
    IF hasName(test.name)
    THEN << [subject       |-> displaySubject(test.subject),
             name          |-> test.name,
             date          |-> orDefault(test.date, <<>>),
             maxMarks      |-> numberOr0(test.maxMarks),
             marksObtained |-> numberOr0(test.marksObtained),
             percentage    |-> numberOr0(test.percentage),
             grade         |-> orDefault(test.grade, <<>>)] >>
    ELSE <<>>

processHorizontalTests(studentRow, headers) ==
    IF studentRow = NULLROW THEN <<>>
    ELSE LET testMap == testMapLoop(studentRow, headers, 0, <<>>)
         IN Concat([p \in 1..Len(testMap) |-> testEmit(testMap[p])])

RECURSIVE correctionMapLoop(_, _, _, _)
correctionMapLoop(studentRow, headers, i, correctionMap) ==
    IF i >= Len(headers) THEN correctionMap
    ELSE LET header == toLowerCase(headers[i + 1])
         IN IF matchNumbered(header, S_correction)
            THEN correctionMapLoop(studentRow, headers, i + 1,
                     mapPut(correctionMap,
                            [key          |-> header,
                             subject      |-> matchSubject(header),
                             copyType     |-> At(studentRow, i),
                             date         |-> companion(studentRow, headers, header, S_date),
                             improvements |-> companion(studentRow, headers, header, S_improvements),
                             remarks      |-> companion(studentRow, headers, header, S_remarks)]))
            ELSE correctionMapLoop(studentRow, headers, i + 1, correctionMap)

correctionEmit(correction) ==
    IF hasName(correction.copyType)
    THEN << [subject      |-> displaySubject(correction.subject),
             copyType     |-> correction.copyType,
             date         |-> orDefault(correction.date, <<>>),
             improvements |-> orDefault(correction.improvements, <<>>),
             remarks      |-> orDefault(correction.remarks, <<>>)] >>
    ELSE <<>>

processHorizontalCorrections(studentRow, headers) ==
    IF studentRow = NULLROW THEN <<>>
    ELSE LET correctionMap == correctionMapLoop(studentRow, headers, 0, <<>>)
         IN Concat([p \in 1..Len(correctionMap) |-> correctionEmit(correctionMap[p])])

-----------------------------------------------------------------------------
(* Dates and the ordering of tests *)

RECURSIVE split(_, _)
\* s.split(sep) for a one-character separator
split(s, sep) ==
    LET k == indexOfChar(s, sep)
    IN IF k = 0 THEN <<s>>
       ELSE <<SubSeq(s, 1, k - 1)>> \o split(SubSeq(s, k + 1, Len(s)), sep)

reverse(a) == [i \in 1..Len(a) |-> a[Len(a) + 1 - i]]

RECURSIVE join(_, _)
join(parts, sep) ==
    IF Len(parts) = 0 THEN <<>>
    ELSE IF Len(parts) = 1 THEN parts[1]
    ELSE parts[1] \o <<sep>> \o join(Tail(parts), sep)

\* new Date(string) as a day ordinal, NaN for an Invalid Date.  Covered: the
\* ISO date form YYYY-MM-DD, and strings that are no date at all; the cells
\* of the model use no other form and no day past the 28th.
newDate(s) ==
    LET parts == split(s, "-")
    IN IF /\ Len(parts) = 3
          /\ Len(parts[1]) = 4 /\ AllDigits(parts[1])
          /\ Len(parts[2]) = 2 /\ AllDigits(parts[2])
          /\ Len(parts[3]) = 2 /\ AllDigits(parts[3])
          /\ DigitsValue(parts[2]) \in 1..12
          /\ DigitsValue(parts[3]) \in 1..31
       THEN Num((DigitsValue(parts[1]) * 12 + DigitsValue(parts[2]) - 1) * 31
                    + DigitsValue(parts[3]), 0)
       ELSE NaN

\* new Date(test.date.split('-').reverse().join('-'))
testDate(test) == newDate(join(reverse(split(test.date, "-")), "-"))

\* the comparator's verdict on (a, b): the sign of dateB - dateA, and +0
\* for NaN, which is how sort reads a NaN from its comparator
compareTests(a, b) ==
    LET dateA == testDate(a)
        dateB == testDate(b)
    IN IF isNaN(dateA) \/ isNaN(dateB) THEN 0
       ELSE IF dateB.m < dateA.m THEN -1
       ELSE IF dateB.m > dateA.m THEN 1
       ELSE 0

\* ECMAScript's "consistent comparator" for the elements of list
consistentComparator(list) ==
    \A i, j, k \in 1..Len(list) :
        LET ij == compareTests(list[i], list[j])
            jk == compareTests(list[j], list[k])
            ik == compareTests(list[i], list[k])
        IN /\ (ij = 0 /\ jk = 0 => ik = 0)
           /\ (ij < 0 /\ jk = 0 => ik < 0)
           /\ (ij = 0 /\ jk < 0 => ik < 0)
           /\ (ij < 0 /\ jk < 0 => ik < 0)
           /\ (ij > 0 /\ jk > 0 => ik > 0)

\* x goes after every element that does not sort after it
insertStable(sorted, x) ==
    LET after == {p \in 1..Len(sorted) : compareTests(sorted[p], x) > 0}
        at    == IF after = {} THEN Len(sorted) + 1
                 ELSE CHOOSE p \in after : \A q \in after : p <= q
    IN SubSeq(sorted, 1, at - 1) \o <<x>> \o SubSeq(sorted, at, Len(sorted))

RECURSIVE stableSort(_)
stableSort(list) ==
    IF Len(list) = 0 THEN <<>>
    ELSE insertStable(stableSort(SubSeq(list, 1, Len(list) - 1)), list[Len(list)])

\* [...allTests].sort(comparator): the stable order when the comparator is
\* consistent; otherwise the order is implementation-defined
sortOutcomes(list) ==
    IF consistentComparator(list) THEN {stableSort(list)}
    ELSE {[i \in 1..Len(list) |-> list[p[i]]] : p \in Permutations(1..Len(list))}

RecentLimit == 5

\* .slice(0, 5)
sliceRecent(list) == SubSeq(list, 1, IF Len(list) < RecentLimit THEN Len(list) ELSE RecentLimit)

-----------------------------------------------------------------------------
(* Number formatting *)

RECURSIVE natToString(_)
natToString(n) ==
    IF n < 10 THEN <<DigitChars[n + 1]>>
    ELSE natToString(n \div 10) \o <<DigitChars[(n % 10) + 1]>>

S_NaN == <<"N","a","N">>

\* String(n) for the results of parseInt (integers) and for NaN
numberToString(n) ==
    IF isNaN(n) THEN S_NaN
    ELSE IF n.m < 0 THEN <<"-">> \o natToString(-n.m)
    ELSE natToString(n.m)

Abs(x) == IF x < 0 THEN -x ELSE x

\* (num / den).toFixed(1) for integers num and den > 0: the nearest tenth,
\* the larger one on a tie, the sign kept in front
toFixed1(num, den) ==
    LET t == (20 * Abs(num) + den) \div (2 * den)
    IN (IF num < 0 THEN <<"-">> ELSE <<>>)
           \o natToString(t \div 10) \o <<".">> \o <<DigitChars[(t % 10) + 1]>>

-----------------------------------------------------------------------------
(* Profile assembly *)

\* A value range of the batchGet reply: `present` is false for an element the
\* reply does not hold (destructuring yields undefined), `hasValues` is false
\* when the range carries no values property.
Sheet(values) == [present |-> TRUE, hasValues |-> TRUE, values |-> values]

SheetNoValues == [present |-> TRUE, hasValues |-> FALSE, values |-> <<>>]

SheetAbsent == [present |-> FALSE, hasValues |-> FALSE, values |-> <<>>]

\* const [studentsSheet, ...] = sheetsData.valueRanges
sheetAt(sheetsData, k) ==
    IF k <= Len(sheetsData.valueRanges) THEN sheetsData.valueRanges[k] ELSE SheetAbsent

\* sheet.values[0] raises a TypeError
headersRaise(sheet) == ~sheet.present \/ ~sheet.hasValues

\* sheet.values[0] is undefined, and headers.findIndex then raises a TypeError
headersUndefined(sheet) == Len(sheet.values) = 0

headersOf(sheet) == sheet.values[1]

S_name == <<"n","a","m","e">>

S_class == <<"c","l","a","s","s">>

S_roll_no == <<"r","o","l","l","_","n","o">>

S_dob == <<"d","o","b">>

S_contact == <<"c","o","n","t","a","c","t">>

S_photo_url == <<"p","h","o","t","o","_","u","r","l">>

S_placeholder == <<"/","a","p","i","/","p","l","a","c","e","h","o","l","d","e","r",
                   "/","1","2","0","/","1","2","0">>

getValueByHeader(row, headers, headerName) ==
    LET index == findIndex(headers, toLowerCase(headerName))
    IN IF index # -1 THEN orDefault(At(row, index), <<>>) ELSE <<>>

\* a + b
addNum(a, b) ==
    IF isNaN(a) \/ isNaN(b) THEN NaN
    ELSE LET e == IF a.e > b.e THEN a.e ELSE b.e
         IN Normalize(Num(a.m * Pow10(e - a.e) + b.m * Pow10(e - b.e), e))

RECURSIVE sumPercentage(_, _)
\* attendance.reduce((sum, month) => sum + month.percentage, 0)
sumPercentage(attendance, sum) ==
    IF Len(attendance) = 0 THEN sum
    ELSE sumPercentage(Tail(attendance), addNum(sum, Head(attendance).percentage))

\* `${overallAttendance.toFixed(1)}%`
attendancePercentage(attendance) ==
    LET sum == sumPercentage(attendance, Zero)
    IN IF Len(attendance) = 0 THEN toFixed1(0, 1) \o <<"%">>
       ELSE IF isNaN(sum) THEN S_NaN \o <<"%">>
       ELSE toFixed1(sum.m, Pow10(sum.e) * Len(attendance)) \o <<"%">>

countStatus(assignments, status) ==
    Cardinality({p \in 1..Len(assignments) : assignments[p].status = status})

recentTest(test) ==
    [subject    |-> test.subject,
     name       |-> test.name,
     date       |-> test.date,
     marks      |-> numberToString(test.marksObtained) \o <<"/">> \o numberToString(test.maxMarks),
     percentage |-> test.percentage,
     grade      |-> test.grade]

\* what processStudentData raises: "TypeError", "Error" (student not found),
\* or "none"
processStudentDataRaises(sheetsData, admissionNumber) ==
    LET studentsSheet == sheetAt(sheetsData, 1)
    IN IF \E k \in 1..7 : headersRaise(sheetAt(sheetsData, k)) THEN "TypeError"
       ELSE IF headersUndefined(studentsSheet) THEN "TypeError"
       ELSE IF findStudentByAdmissionNo(studentsSheet.values, headersOf(studentsSheet),
                                        admissionNumber) = NULLROW THEN "Error"
       ELSE IF \E k \in 2..7 : headersUndefined(sheetAt(sheetsData, k)) THEN "TypeError"
       ELSE "none"

\* the row of the student in sheet k
rowOf(sheetsData, k, admissionNumber) ==
    findStudentByAdmissionNo(sheetAt(sheetsData, k).values,
                             headersOf(sheetAt(sheetsData, k)), admissionNumber)

\* the profile processStudentData returns when it raises nothing, `sorted`
\* being the outcome of the sort of the tests
processStudentDataProfile(sheetsData, admissionNumber, sorted) ==
    LET studentsHeaders == headersOf(sheetAt(sheetsData, 1))
        studentData     == rowOf(sheetsData, 1, admissionNumber)
        subjectProgress == processHorizontalSubjects(rowOf(sheetsData, 2, admissionNumber),
                                                     headersOf(sheetAt(sheetsData, 2)))
        assignments     == processHorizontalAssignments(rowOf(sheetsData, 4, admissionNumber),
                                                        headersOf(sheetAt(sheetsData, 4)))
        attendance      == processHorizontalAttendance(rowOf(sheetsData, 7, admissionNumber),
                                                       headersOf(sheetAt(sheetsData, 7)))
    IN [studentInfo |->
            [name        |-> getValueByHeader(studentData, studentsHeaders, S_name),
             class       |-> getValueByHeader(studentData, studentsHeaders, S_class),
             admissionNo |-> getValueByHeader(studentData, studentsHeaders, ADMISSION_NO),
             rollNo      |-> getValueByHeader(studentData, studentsHeaders, S_roll_no),
             dob         |-> getValueByHeader(studentData, studentsHeaders, S_dob),
             contact     |-> getValueByHeader(studentData, studentsHeaders, S_contact),
             photoUrl    |-> orDefault(getValueByHeader(studentData, studentsHeaders, S_photo_url),
                                       S_placeholder)],
        subjectProgress   |-> subjectProgress,
        recentTests       |-> [p \in 1..Len(sliceRecent(sorted)) |-> recentTest(sliceRecent(sorted)[p])],
        subjectActivities |-> processHorizontalActivities(rowOf(sheetsData, 3, admissionNumber),
                                                          headersOf(sheetAt(sheetsData, 3))),
        assignments       |-> assignments,
        tests             |-> processHorizontalTests(rowOf(sheetsData, 5, admissionNumber),
                                                     headersOf(sheetAt(sheetsData, 5))),
        corrections       |-> processHorizontalCorrections(rowOf(sheetsData, 6, admissionNumber),
                                                           headersOf(sheetAt(sheetsData, 6))),
        attendance        |-> attendance,
        summary |->
            [totalSubjects        |-> Len(subjectProgress),
             completedAssignments |-> countStatus(assignments, S_complete),
             pendingAssignments   |-> countStatus(assignments, S_pending),
             attendancePercentage |-> attendancePercentage(attendance)]]

\* the outcomes of processStudentData(sheetsData, admissionNumber): what it
\* raises, or the profile for one outcome of the sort
processStudentData(sheetsData, admissionNumber) ==
    IF processStudentDataRaises(sheetsData, admissionNumber) # "none"
    THEN {[raised |-> processStudentDataRaises(sheetsData, admissionNumber)]}
    ELSE LET allTests == processHorizontalTests(rowOf(sheetsData, 5, admissionNumber),
                                                headersOf(sheetAt(sheetsData, 5)))
             profile  == processStudentDataProfile(sheetsData, admissionNumber, allTests)
         IN {[raised |-> "none",
              value  |-> [profile EXCEPT !.recentTests =
                             [p \in 1..Len(sliceRecent(sorted)) |-> recentTest(sliceRecent(sorted)[p])]]] :
                sorted \in sortOutcomes(allTests)}

-----------------------------------------------------------------------------
(* Inputs *)

MaxRows == 3

MaxCols == 3

MaxTests == 6

NumRequests == 2

Requests == 1..NumRequests

\* all sequences over S of length at most n
RECURSIVE SeqUpTo(_, _)
SeqUpTo(S, n) ==
    IF n = 0 THEN {<<>>}
    ELSE LET shorter == SeqUpTo(S, n - 1)
         IN shorter \cup {Append(q, x) : q \in {t \in shorter : Len(t) = n - 1}, x \in S}

S_Admission_No == <<"A","d","m","i","s","s","i","o","n","_","N","o">>

\* header rows of the lookup: the key column first, second, spelt in another
\* case, twice, or missing
FindHeaders ==
    { <<ADMISSION_NO, S_name>>, <<S_name, ADMISSION_NO>>, <<S_Admission_No, S_name>>,
      <<S_name, S_Admission_No, ADMISSION_NO>>, <<S_name, S_class>>, <<S_name>> }

\* key cells: a key and its other-case spelling
FindCells == { <<"1","a">>, <<"1","A">> }

\* rows of zero to two cells, and one whose cell is a proper prefix of a key
FindRows == SeqUpTo(FindCells, 2) \cup { << <<"1">> >> }

\* the keys looked up; a key may also be the text of the header cell itself
FindKeys == { <<"1","a">>, <<"1">>, ADMISSION_NO, S_Admission_No }

NoCall == [fn |-> "none"]

NoRet == [done |-> FALSE]

Returned(v) == [done |-> TRUE, value |-> v]

NoData == [valueRanges |-> <<>>]

HttpIdle ==
    /\ pc = [r \in Requests |-> "idle"]
    /\ admission = [r \in Requests |-> UNDEF]
    /\ fetched = [r \in Requests |-> NoData]
    /\ response = [r \in Requests |-> [status |-> 0]]

HttpUnchanged == UNCHANGED <<pc, admission, fetched, response>>

-----------------------------------------------------------------------------
(* findStudentByAdmissionNo applied to bounded tables *)

InitFind ==
    /\ HttpIdle
    /\ \E headers \in FindHeaders, rows \in SeqUpTo(FindRows, MaxRows), key \in FindKeys :
           call = [fn |-> "findStudentByAdmissionNo",
                   values |-> <<headers>> \o rows, headers |-> headers, admissionNo |-> key]
    /\ ret = NoRet

CallFindStudent ==
    /\ call.fn = "findStudentByAdmissionNo"
    /\ ~ret.done
    /\ ret' = Returned(findStudentByAdmissionNo(call.values, call.headers, call.admissionNo))
    /\ UNCHANGED call
    /\ HttpUnchanged

NextFind == CallFindStudent

SpecFind == InitFind /\ [][NextFind]_vars

\* the zero-based position of the key column of the call, -1 when unresolved
KeyColumn == findIndex(call.headers, ADMISSION_NO)

\* the data rows (positions 2.. of values) whose key cell is the key itself
KeyMatches ==
    {i \in 2..Len(call.values) : At(call.values[i], KeyColumn) = call.admissionNo}

\* C2: with a key column resolved, findStudentByAdmissionNo returns the
\* matching data row of smallest index, matching by exact equality of the
\* whole cell, and not-found when no data row matches; the header row is
\* never the answer.
C2_FindFirstExact ==
    (ret.done /\ KeyColumn # -1) =>
        IF KeyMatches = {} THEN ret.value = NULLROW
        ELSE ret.value = call.values[CHOOSE i \in KeyMatches : \A j \in KeyMatches : i <= j]

\* a lookup that skips a data row spelt in the other case, has two matching
\* rows after it, and whose header cell is not the key
C2_Witness ==
    /\ ret.done
    /\ KeyColumn # -1
    /\ Cardinality(KeyMatches) = 2
    /\ ~(2 \in KeyMatches)
    /\ toLowerCase(At(call.values[2], KeyColumn)) = toLowerCase(call.admissionNo)
    /\ ret.value = call.values[3]
    /\ call.values[3] # call.values[4]

-----------------------------------------------------------------------------
(* The fixed-suffix decoders applied to bounded rows *)

\* subject headers: a progress column, one spelt in capitals, and a near miss
\* that lacks the underscore
SubjectHeaders ==
    { <<"m">> \o progressSuffix,
      <<"S","_","P","R","O","G","R","E","S","S">>,
      <<"p","r","o","g","r","e","s","s">> }

\* month headers: a working column, one in capitals, and a near miss
MonthHeaders ==
    { <<"j","a","n">> \o workingSuffix,
      <<"F","e","b","_","W","o","r","k","i","n","g">>,
      <<"w","o","r","k","i","n","g">> }

\* cells: a positive number, zero, empty, text, a fraction below one
NumberCells ==
    { <<"8","0">>, <<"0">>, <<>>, <<"x">>, <<"0",".","5">> }

NumberRows == SeqUpTo(NumberCells, MaxCols)

InitDecode ==
    /\ HttpIdle
    /\ \/ \E headers \in SeqUpTo(SubjectHeaders, MaxCols) :
             \E row \in {r \in NumberRows : Len(r) <= Len(headers)} :
                 call = [fn |-> "processHorizontalSubjects", studentRow |-> row, headers |-> headers]
       \/ \E headers \in SeqUpTo(MonthHeaders, MaxCols) :
             \E row \in {r \in NumberRows : Len(r) <= Len(headers)} :
                 call = [fn |-> "processHorizontalAttendance", studentRow |-> row, headers |-> headers]
    /\ ret = NoRet

CallSubjects ==
    /\ call.fn = "processHorizontalSubjects"
    /\ ~ret.done
    /\ ret' = Returned(processHorizontalSubjects(call.studentRow, call.headers))
    /\ UNCHANGED call
    /\ HttpUnchanged

CallAttendance ==
    /\ call.fn = "processHorizontalAttendance"
    /\ ~ret.done
    /\ ret' = Returned(processHorizontalAttendance(call.studentRow, call.headers))
    /\ UNCHANGED call
    /\ HttpUnchanged

NextDecode == CallSubjects \/ CallAttendance

SpecDecode == InitDecode /\ [][NextDecode]_vars

\* the primary suffix of the decoder called
PrimarySuffix ==
    IF call.fn = "processHorizontalSubjects" THEN progressSuffix ELSE workingSuffix

\* the number the decoder called reads in cell p (1-based) of the row
PrimaryValue(p) ==
    IF call.fn = "processHorizontalSubjects"
    THEN parseFloatOr0(At(call.studentRow, p - 1))
    ELSE parseIntOr0(At(call.studentRow, p - 1))

\* the header positions whose group is to be emitted
EmittedColumns ==
    {p \in 1..Len(call.headers) :
        /\ endsWith(toLowerCase(call.headers[p]), PrimarySuffix)
        /\ GreaterThanZero(PrimaryValue(p))}

\* the group name the record of header position p carries
GroupName(p) ==
    LET key == dropLast(toLowerCase(call.headers[p]), Len(PrimarySuffix))
    IN IF call.fn = "processHorizontalSubjects"
       THEN capitalizeFirstLetter(replaceFirstUnderscore(key))
       ELSE capitalizeFirstLetter(key)

\* C3: the fixed-suffix decoders return a list (they raise nothing) holding
\* one record for each header that ends in the primary suffix and whose cell
\* parses (parseFloat for _progress, parseInt for _working) to a number > 0,
\* none for any other header, in left-to-right header order.
C3_FixedSuffixGroups ==
    ret.done =>
        /\ Len(ret.value) = Cardinality(EmittedColumns)
        /\ \A p \in EmittedColumns :
               LET k == Cardinality({q \in EmittedColumns : q <= p})
               IN IF call.fn = "processHorizontalSubjects"
                  THEN /\ ret.value[k].subject = GroupName(p)
                       /\ ret.value[k].progress = PrimaryValue(p)
                  ELSE /\ ret.value[k].month = GroupName(p)
                       /\ ret.value[k].workingDays = PrimaryValue(p)

\* three primary headers of two different groups, the middle one dropped for a
\* cell that is text, zero, a fraction, empty or absent
C3_Witness ==
    /\ ret.done
    /\ Len(call.headers) = 3
    /\ \A p \in 1..3 : endsWith(toLowerCase(call.headers[p]), PrimarySuffix)
    /\ EmittedColumns = {1, 3}
    /\ Len(ret.value) = 2
    /\ GroupName(1) # GroupName(3)

-----------------------------------------------------------------------------
(* The numbered-pattern decoders applied to bounded rows *)

\* per decoder: the primary header, the same header in another case (a second
\* column of the same group), and two companion headers
ActivityHeaders ==
    { <<"m","_">> \o S_activity \o <<"1">>,
      <<"M","_","A","c","t","i","v","i","t","y","1">>,
      <<"m","_">> \o S_activity \o <<"1">> \o S_date,
      <<"m","_">> \o S_activity \o <<"1">> \o S_status }

AssignmentHeaders ==
    { <<"m","_">> \o S_assignment \o <<"1">>,
      <<"s","_">> \o S_assignment \o <<"2">>,
      <<"m","_">> \o S_assignment \o <<"1">> \o S_due_date,
      <<"m","_">> \o S_assignment \o <<"1">> \o S_status }

TestHeaders ==
    { <<"m","_">> \o S_test \o <<"1">>,
      <<"s","_">> \o S_test \o <<"1","2">>,
      <<"m","_">> \o S_test \o <<"1">> \o S_max_marks,
      <<"m","_">> \o S_test \o <<"1">> \o S_grade }

CorrectionHeaders ==
    { <<"m","_">> \o S_correction \o <<"1">>,
      <<"M","_","C","O","R","R","E","C","T","I","O","N","1">>,
      <<"m","_">> \o S_correction \o <<"1">> \o S_date,
      <<"m","_">> \o S_correction \o <<"1">> \o S_remarks }

\* cells: a text that is also a number, a blank, the empty cell
GroupCells == { <<"7">>, <<" ">>, <<>> }

GroupRows == SeqUpTo(GroupCells, MaxCols)

GroupCall(fn, Headers) ==
    \E headers \in SeqUpTo(Headers, MaxCols) :
        \E row \in {r \in GroupRows : Len(r) <= Len(headers)} :
            call = [fn |-> fn, studentRow |-> row, headers |-> headers]

InitGroups ==
    /\ HttpIdle
    /\ \/ GroupCall("processHorizontalActivities", ActivityHeaders)
       \/ GroupCall("processHorizontalAssignments", AssignmentHeaders)
       \/ GroupCall("processHorizontalTests", TestHeaders)
       \/ GroupCall("processHorizontalCorrections", CorrectionHeaders)
    /\ ret = NoRet

CallActivities ==
    /\ call.fn = "processHorizontalActivities"
    /\ ~ret.done
    /\ ret' = Returned(processHorizontalActivities(call.studentRow, call.headers))
    /\ UNCHANGED call
    /\ HttpUnchanged

CallAssignments ==
    /\ call.fn = "processHorizontalAssignments"
    /\ ~ret.done
    /\ ret' = Returned(processHorizontalAssignments(call.studentRow, call.headers))
    /\ UNCHANGED call
    /\ HttpUnchanged

CallTests ==
    /\ call.fn = "processHorizontalTests"
    /\ ~ret.done
    /\ ret' = Returned(processHorizontalTests(call.studentRow, call.headers))
    /\ UNCHANGED call
    /\ HttpUnchanged

CallCorrections ==
    /\ call.fn = "processHorizontalCorrections"
    /\ ~ret.done
    /\ ret' = Returned(processHorizontalCorrections(call.studentRow, call.headers))
    /\ UNCHANGED call
    /\ HttpUnchanged

NextGroups == CallActivities \/ CallAssignments \/ CallTests \/ CallCorrections

SpecGroups == InitGroups /\ [][NextGroups]_vars

GroupKind ==
    CASE call.fn = "processHorizontalActivities"  -> S_activity
      [] call.fn = "processHorizontalAssignments" -> S_assignment
      [] call.fn = "processHorizontalTests"       -> S_test
      [] call.fn = "processHorizontalCorrections" -> S_correction

\* the field of the emitted record that carries the primary name cell
NameField ==
    CASE call.fn = "processHorizontalActivities"  -> "activity"
      [] call.fn = "processHorizontalAssignments" -> "name"
      [] call.fn = "processHorizontalTests"       -> "name"
      [] call.fn = "processHorizontalCorrections" -> "copyType"

\* the companion fields of the decoder called, each with its header suffix
Companions ==
    CASE call.fn = "processHorizontalActivities" ->
           { [field |-> "date", suffix |-> S_date],
             [field |-> "description", suffix |-> S_description],
             [field |-> "status", suffix |-> S_status] }
      [] call.fn = "processHorizontalAssignments" ->
           { [field |-> "assignedDate", suffix |-> S_assigned_date],
             [field |-> "dueDate", suffix |-> S_due_date],
             [field |-> "status", suffix |-> S_status],
             [field |-> "remarks", suffix |-> S_remarks] }
      [] call.fn = "processHorizontalTests" ->
           { [field |-> "date", suffix |-> S_date],
             [field |-> "maxMarks", suffix |-> S_max_marks],
             [field |-> "marksObtained", suffix |-> S_marks_obtained],
             [field |-> "percentage", suffix |-> S_percentage],
             [field |-> "grade", suffix |-> S_grade] }
      [] call.fn = "processHorizontalCorrections" ->
           { [field |-> "date", suffix |-> S_date],
             [field |-> "improvements", suffix |-> S_improvements],
             [field |-> "remarks", suffix |-> S_remarks] }

NumericFields == {"maxMarks", "marksObtained", "percentage"}

GroupKey(p) == toLowerCase(call.headers[p])

\* the header positions that open a group: the first column of each key
GroupColumns ==
    {p \in 1..Len(call.headers) :
        /\ matchNumbered(GroupKey(p), GroupKind)
        /\ \A q \in 1..(p - 1) : GroupKey(q) # GroupKey(p)}

\* the primary name cell of the group opened at p: the cell under the last
\* column that carries the group's key
NameCell(p) ==
    LET last == CHOOSE q \in 1..Len(call.headers) :
                    /\ GroupKey(q) = GroupKey(p)
                    /\ \A r \in (q + 1)..Len(call.headers) : GroupKey(r) # GroupKey(p)
    IN At(call.studentRow, last - 1)

NamedGroups == {p \in GroupColumns : hasName(NameCell(p))}

\* the companion column of the group opened at p is unmatched or its cell absent
CompanionMissing(p, c) ==
    \/ findIndex(call.headers, GroupKey(p) \o c.suffix) = -1
    \/ At(call.studentRow, findIndex(call.headers, GroupKey(p) \o c.suffix)) = UNDEF

\* the emitted record of the named group opened at p
GroupRecord(p) == ret.value[Cardinality({q \in NamedGroups : q <= p})]

CompanionDefault(field) ==
    IF field = "status" THEN S_pending
    ELSE IF field \in NumericFields THEN Zero
    ELSE <<>>

-----------------------------------------------------------------------------
(* processStudentData applied to bounded replies *)

K1 == <<"1","2","3","4","5">>

K2 == <<"5","4","3","2","1">>

K3 == <<"0","0","0","0","7">>

M_ == <<"m","_">>

\* the headers and the rows of each sheet when it is filled in: every sheet
\* has the key column first and a row of student K1 that yields records
FullHeaders(k) ==
    CASE k = 1 -> <<ADMISSION_NO, S_name>>
      [] k = 2 -> <<ADMISSION_NO, <<"m">> \o progressSuffix, <<"m">> \o gradeSuffix>>
      [] k = 3 -> <<ADMISSION_NO, M_ \o S_activity \o <<"1">>,
                    M_ \o S_activity \o <<"1">> \o S_status>>
      [] k = 4 -> <<ADMISSION_NO, M_ \o S_assignment \o <<"1">>,
                    M_ \o S_assignment \o <<"1">> \o S_status,
                    <<"s","_">> \o S_assignment \o <<"2">>>>
      [] k = 5 -> <<ADMISSION_NO, M_ \o S_test \o <<"1">>, M_ \o S_test \o <<"1">> \o S_date,
                    M_ \o S_test \o <<"1">> \o S_max_marks,
                    M_ \o S_test \o <<"1">> \o S_marks_obtained>>
      [] k = 6 -> <<ADMISSION_NO, M_ \o S_correction \o <<"1">>>>
      [] k = 7 -> <<ADMISSION_NO, <<"j","a","n">> \o workingSuffix,
                    <<"j","a","n">> \o percentSuffix>>

FullRows(k) ==
    CASE k = 1 -> << <<K1, <<"A","l">>>>, <<K2, <<"B","o">>>> >>
      [] k = 2 -> << <<K2, <<"7","0">>, <<"B">>>>, <<K1, <<"8","0">>, <<"A">>>> >>
      [] k = 3 -> << <<K1, <<"Q">>, S_complete>> >>
      [] k = 4 -> << <<K1, <<"H">>, S_complete, <<"W">>>> >>
      [] k = 5 -> << <<K1, <<"T">>, <<"0","2","-","0","1","-","2","0","2","4">>,
                       <<"5","0">>, <<"4","0">>>> >>
      [] k = 6 -> << <<K1, <<"N">>>> >>
      [] k = 7 -> << <<K1, <<"2","0">>, <<"7","5",".","5">>>> >>

\* sheet k in one of its shapes: filled in, its key column renamed, not in the
\* reply, without a values property, or with values but no row at all
SheetShapes == {"full", "nokey", "absent", "novalues", "zerorows"}

ShapedSheet(k, shape) ==
    CASE shape = "full"     -> Sheet(<<FullHeaders(k)>> \o FullRows(k))
      [] shape = "nokey"    -> Sheet(<<[FullHeaders(k) EXCEPT ![1] = S_roll_no]>> \o FullRows(k))
      [] shape = "absent"   -> SheetAbsent
      [] shape = "novalues" -> SheetNoValues
      [] shape = "zerorows" -> Sheet(<<>>)

\* the reply whose sheet k has shape shapes[k]
Reply(shapes) == [valueRanges |-> [k \in 1..7 |-> ShapedSheet(k, shapes[k])]]

\* replies in which a set of non-primary sheets shares one defective shape
ShapedReplies ==
    { Reply([k \in 1..7 |-> IF k = 1 THEN first ELSE IF k \in D THEN shape ELSE "full"]) :
        first \in {"full", "nokey"}, D \in SUBSET (2..7),
        shape \in SheetShapes \ {"full"} }

\* attendance rows of student K1 over two months: working cells that are
\* positive or zero, percent cells that are numbers, text or empty, and rows
\* cut short so that trailing cells are absent
AttendanceHeaders ==
    <<ADMISSION_NO, <<"j","a","n">> \o workingSuffix, <<"j","a","n">> \o percentSuffix,
      <<"f","e","b">> \o workingSuffix, <<"f","e","b">> \o percentSuffix>>

WorkingCells == { <<"2","0">>, <<"0">> }

PercentCells == { <<"7","5",".","5">>, <<"8","0">>, <<"5","0">>, <<"x">>, <<>> }

AttendanceRows ==
    LET whole == { <<K1, w1, p1, w2, p2>> :
                     w1 \in WorkingCells, p1 \in PercentCells,
                     w2 \in WorkingCells, p2 \in PercentCells }
    IN whole \cup { SubSeq(r, 1, n) : r \in whole, n \in {2, 4} }

AttendanceReplies ==
    { [valueRanges |-> [k \in 1..7 |->
          IF k = 7 THEN Sheet(<<AttendanceHeaders, row>>) ELSE ShapedSheet(k, "full")]] :
        row \in AttendanceRows }
      \cup
    { [valueRanges |-> [k \in 1..7 |->
          IF k = 7 THEN Sheet(<<SubSeq(AttendanceHeaders, 1, 2), <<K1, w>>>>)
          ELSE ShapedSheet(k, "full")]] : w \in WorkingCells }

InitProfile ==
    /\ HttpIdle
    /\ \/ \E reply \in ShapedReplies, key \in {K1, K3} :
             call = [fn |-> "processStudentData", sheetsData |-> reply, admissionNumber |-> key]
       \/ \E reply \in AttendanceReplies :
             call = [fn |-> "processStudentData", sheetsData |-> reply, admissionNumber |-> K1]
    /\ ret = NoRet

CallProcessStudentData ==
    /\ call.fn = "processStudentData"
    /\ ~ret.done
    /\ \E outcome \in processStudentData(call.sheetsData, call.admissionNumber) :
           ret' = Returned(outcome)
    /\ UNCHANGED call
    /\ HttpUnchanged

NextProfile == CallProcessStudentData

SpecProfile == InitProfile /\ [][NextProfile]_vars

\* the sheet k of the reply of the call
CallSheet(k) == sheetAt(call.sheetsData, k)

\* sheet k has a header row
HasHeaderRow(k) ==
    CallSheet(k).present /\ CallSheet(k).hasValues /\ Len(CallSheet(k).values) > 0

\* sheet k has a header row with no key column
KeyColumnMissing(k) ==
    HasHeaderRow(k) /\ findIndex(headersOf(CallSheet(k)), ADMISSION_NO) = -1

\* the student of the call has a row in the Students sheet
StudentFound ==
    /\ HasHeaderRow(1)
    /\ findStudentByAdmissionNo(CallSheet(1).values, headersOf(CallSheet(1)),
                                call.admissionNumber) # NULLROW

\* the list of the profile that is derived from the non-primary sheet k
DerivedList(profile, k) ==
    CASE k = 2 -> profile.subjectProgress
      [] k = 3 -> profile.subjectActivities
      [] k = 4 -> profile.assignments
      [] k = 5 -> profile.tests
      [] k = 6 -> profile.corrections
      [] k = 7 -> profile.attendance

Returns == ret.done /\ ret.value.raised = "none"

Raises == ret.done /\ ret.value.raised # "none"

\* The claim C1: every month entry of the profile's attendance carries a days
\* sequence with exactly one AttendanceDay for each day 1..N of the month (N
\* being 28 to 31), none missing and none twice.
C1_MonthsCarryAllDays ==
    Returns =>
        \A p \in 1..Len(ret.value.value.attendance) :
            LET entry == ret.value.value.attendance[p]
            IN /\ "days" \in DOMAIN entry
               /\ \E n \in 28..31 :
                      /\ Len(entry.days) = n
                      /\ \A d \in 1..n :
                             Cardinality({q \in 1..n : entry.days[q].dayOfMonth = d}) = 1

\* The claim C6: when the student is found and a non-primary sheet is not in
\* the reply, has no values, or has no row at all, processStudentData raises
\* nothing and the list derived from that sheet is empty.
C6_EmptySheetsTolerated ==
    (ret.done /\ StudentFound /\ \A k \in 2..7 : ~KeyColumnMissing(k)) =>
        /\ ret.value.raised = "none"
        /\ \A k \in 2..7 : ~HasHeaderRow(k) => DerivedList(ret.value.value, k) = <<>>

\* C7: a Students sheet whose header row has no key column makes
\* processStudentData raise; with the student found and a header row in every
\* sheet, a non-primary sheet whose header row has no key column yields the
\* empty list and the profile is returned.
C7_KeyColumnMissing ==
    ret.done =>
        /\ KeyColumnMissing(1) => ret.value.raised # "none"
        /\ (StudentFound /\ \A k \in 2..7 : HasHeaderRow(k)) =>
               /\ ret.value.raised = "none"
               /\ \A k \in 2..7 :
                      KeyColumnMissing(k) => DerivedList(ret.value.value, k) = <<>>

\* a profile returned with the Subjects and Attendance sheets lacking the key
\* column and the other sheets still yielding their records
C7_Witness ==
    /\ Returns
    /\ \A k \in 2..7 : KeyColumnMissing(k) <=> k \in {2, 7}
    /\ ret.value.value.subjectProgress = <<>>
    /\ ret.value.value.attendance = <<>>
    /\ Len(ret.value.value.tests) = 1
    /\ Len(ret.value.value.assignments) = 2
    /\ ret.value.value.studentInfo.name = <<"A","l">>

S_zero_percent == <<"0",".","0","%">>

\* s is a number written with exactly one decimal digit, followed by '%'
OneDecimalPercent(s) ==
    LET body == IF Len(s) > 0 /\ s[1] = "-" THEN Tail(s) ELSE s
        n    == Len(body)
    IN /\ n >= 4
       /\ body[n] = "%"
       /\ IsDigit(body[n - 1])
       /\ body[n - 2] = "."
       /\ AllDigits(SubSeq(body, 1, n - 3))

\* twice the distance between num/den and the tenths count t, times den
TwiceOffBy(num, den, t) == Abs(20 * num - 2 * t * den)

\* The claim C9: attendancePercentage is "0.0%" for an empty month list, and
\* otherwise a number with exactly one decimal digit followed by '%' that is
\* the mean of the months' percentages rounded to that digit.
C9_AttendancePercentage ==
    Returns =>
        LET attendance == ret.value.value.attendance
            shown      == ret.value.value.summary.attendancePercentage
            sum        == sumPercentage(attendance, Zero)
            tenths     == parseFloatStr(dropLast(shown, 1))
        IN IF Len(attendance) = 0 THEN shown = S_zero_percent
           ELSE /\ OneDecimalPercent(shown)
                /\ ~isNaN(sum) =>
                       TwiceOffBy(sum.m, Pow10(sum.e) * Len(attendance),
                                  tenths.m * Pow10(1 - tenths.e))
                           <= Pow10(sum.e) * Len(attendance)

-----------------------------------------------------------------------------
(* processStudentData applied to rows of tests *)

\* dates as the sheet writes them, DD-MM-YYYY: 2 January and 1 February 2024
\* (their order as text is the reverse of their order as dates), and no date
TestDateCells ==
    { <<"0","2","-","0","1","-","2","0","2","4">>,
      <<"0","1","-","0","2","-","2","0","2","4">>,
      <<>> }

RECURSIVE TestsHeaders(_)
\* admission_no, then m_test<i> and m_test<i>_date for i = 1..n
TestsHeaders(n) ==
    IF n = 0 THEN <<ADMISSION_NO>>
    ELSE TestsHeaders(n - 1)
             \o <<M_ \o S_test \o natToString(n), M_ \o S_test \o natToString(n) \o S_date>>

\* the row of student K1: test i is named T<i> and dated dates[i]
TestsRow(dates) ==
    <<K1>> \o Concat([i \in 1..Len(dates) |-> << <<"T">> \o natToString(i), dates[i] >>])

TestsReplies ==
    { [valueRanges |-> [k \in 1..7 |->
          IF k = 5 THEN Sheet(<<TestsHeaders(Len(dates)), TestsRow(dates)>>)
          ELSE ShapedSheet(k, "full")]] :
        dates \in SeqUpTo(TestDateCells, MaxTests) }

InitSort ==
    /\ HttpIdle
    /\ \E reply \in TestsReplies :
           call = [fn |-> "processStudentData", sheetsData |-> reply, admissionNumber |-> K1]
    /\ ret = NoRet

SpecSort == InitSort /\ [][NextProfile]_vars

\* the position in tests of the test named name
PositionOf(tests, name) == CHOOSE p \in 1..Len(tests) : tests[p].name = name

\* a is dated no earlier than b, both dates being parseable
NoOlder(a, b) == testDate(a).m >= testDate(b).m

BothDated(a, b) == ~isNaN(testDate(a)) /\ ~isNaN(testDate(b))

\* The claim C5: recentTests holds min(5, n) of the n tests, newest first by
\* parsed date, tests of equal date in their original order, and no test left
\* out is newer than a test kept.
C5_RecentTests ==
    Returns =>
        LET tests  == ret.value.value.tests
            recent == ret.value.value.recentTests
            kept   == {recent[p].name : p \in 1..Len(recent)}
        IN /\ Len(recent) = (IF Len(tests) < RecentLimit THEN Len(tests) ELSE RecentLimit)
           /\ \A i, j \in 1..Len(recent) :
                  (i < j /\ BothDated(recent[i], recent[j])) =>
                      /\ NoOlder(recent[i], recent[j])
                      /\ testDate(recent[i]) = testDate(recent[j]) =>
                             PositionOf(tests, recent[i].name) < PositionOf(tests, recent[j].name)
           /\ \A p \in 1..Len(tests), q \in 1..Len(recent) :
                  (tests[p].name \notin kept /\ BothDated(tests[p], recent[q])) =>
                      NoOlder(recent[q], tests[p])

-----------------------------------------------------------------------------
(* GET /api/student-data: concurrent requests *)

\* the admission query parameter: three well-formed keys (K3 is in no sheet),
\* four digits, six digits, five characters that are not all digits, the
\* empty string (?admission=) and no parameter
AdmissionInputs ==
    { K1, K2, K3, <<"1","2","3","4">>, <<"1","2","3","4","5","6">>,
      <<"1","2","3","4","a">>, <<>>, UNDEF }

\* /\d{5}/.test(admissionNumber): the pattern without its anchors
fiveDigits_Unanchored(s) ==
    \E k \in 0..(Len(s) - 5) : \A i \in 1..5 : IsDigit(s[k + i])

\* /^\d{5}$/.test(admissionNumber)
fiveDigits(s) == Len(s) = 5 /\ \A i \in 1..5 : IsDigit(s[i])

\* !admissionNumber || !/^\d{5}$/.test(admissionNumber)
invalidAdmission(a) == ~Truthy(a) \/ ~fiveDigits(a)

\* what the fetch can resolve to: every sheet filled in, a Students sheet
\* without the key column, a Subjects range without values
HttpReplies ==
    { Reply([k \in 1..7 |-> "full"]),
      Reply([k \in 1..7 |-> IF k = 1 THEN "nokey" ELSE "full"]),
      Reply([k \in 1..7 |-> IF k = 2 THEN "novalues" ELSE "full"]) }

Rejected == [rejected |-> TRUE]

BadRequest == [status |-> 400, error |-> "Invalid admission number. Must be 5 digits."]

ServerError == [status |-> 500, error |-> "Failed to fetch data from Google Sheets"]

Ok(processedData) == [status |-> 200, body |-> processedData]

\* req.query.admission, bound to the handler's own admissionNumber
admissionNumberOf(r) == admission[r]

responseDataOf_Shared(r) == fetched[1]

\* response.data, bound to the handler's own response
responseDataOf(r) == fetched[r]

\* res.json(processedData), or the catch block's res.status(500)
respond(outcome) ==
    IF outcome.raised = "none" THEN Ok(outcome.value) ELSE ServerError

Init ==
    /\ pc = [r \in Requests |-> "idle"]
    /\ admission = [r \in Requests |-> UNDEF]
    /\ fetched = [r \in Requests |-> NoData]
    /\ response = [r \in Requests |-> [status |-> 0]]
    /\ call = NoCall
    /\ ret = NoRet

\* a request arrives with a missing or malformed admission number
RejectInvalid(r) ==
    /\ pc[r] = "idle"
    /\ \E a \in AdmissionInputs :
           /\ invalidAdmission(a)
           /\ admission' = [admission EXCEPT ![r] = a]
    /\ response' = [response EXCEPT ![r] = BadRequest]
    /\ pc' = [pc EXCEPT ![r] = "done"]
    /\ UNCHANGED <<fetched, call, ret>>

\* a request arrives with a well-formed admission number: the fetch is issued
\* and the handler is suspended at the await
IssueFetch(r) ==
    /\ pc[r] = "idle"
    /\ \E a \in AdmissionInputs :
           /\ ~invalidAdmission(a)
           /\ admission' = [admission EXCEPT ![r] = a]
    /\ pc' = [pc EXCEPT ![r] = "awaiting"]
    /\ UNCHANGED <<fetched, response, call, ret>>

\* the fetch of request r resolves
FetchResolve(r) ==
    /\ pc[r] = "awaiting"
    /\ \E reply \in HttpReplies : fetched' = [fetched EXCEPT ![r] = reply]
    /\ pc' = [pc EXCEPT ![r] = "fetched"]
    /\ UNCHANGED <<admission, response, call, ret>>

\* the fetch of request r rejects
FetchReject(r) ==
    /\ pc[r] = "awaiting"
    /\ fetched' = [fetched EXCEPT ![r] = Rejected]
    /\ pc' = [pc EXCEPT ![r] = "rejected"]
    /\ UNCHANGED <<admission, response, call, ret>>

\* the handler resumes after the await: it processes the reply and answers
Resume(r) ==
    /\ pc[r] = "fetched"
    /\ \E outcome \in processStudentData(responseDataOf(r), admissionNumberOf(r)) :
           response' = [response EXCEPT ![r] = respond(outcome)]
    /\ pc' = [pc EXCEPT ![r] = "done"]
    /\ UNCHANGED <<admission, fetched, call, ret>>

\* the handler resumes in its catch block
ResumeCatch(r) ==
    /\ pc[r] = "rejected"
    /\ response' = [response EXCEPT ![r] = ServerError]
    /\ pc' = [pc EXCEPT ![r] = "done"]
    /\ UNCHANGED <<admission, fetched, call, ret>>

Next ==
    \E r \in Requests :
        \/ RejectInvalid(r)
        \/ IssueFetch(r)
        \/ FetchResolve(r)
        \/ FetchReject(r)
        \/ Resume(r)
        \/ ResumeCatch(r)

Spec == Init /\ [][Next]_vars

\* the fetch of request r succeeded
FetchSucceeded(r) == pc[r] = "done" /\ fetched[r] \in HttpReplies

\* the Students sheet request r fetched has a header row without key column
StudentsKeyColumnMissing(r) ==
    LET students == sheetAt(fetched[r], 1)
    IN Len(students.values) > 0 /\ findIndex(headersOf(students), ADMISSION_NO) = -1

\* the Students sheet request r fetched has a key column and no row of its key
StudentNotFound(r) ==
    LET students == sheetAt(fetched[r], 1)
    IN /\ Len(students.values) > 0
       /\ findIndex(headersOf(students), ADMISSION_NO) # -1
       /\ \A i \in 2..Len(students.values) :
              At(students.values[i], findIndex(headersOf(students), ADMISSION_NO)) # admission[r]

\* The claim C8: after a successful fetch, a student key that matches no row
\* of the Students sheet, or a Students sheet without key column, is answered
\* with a 4xx status.
C8_FatalKindsAre4xx ==
    \A r \in Requests :
        (FetchSucceeded(r) /\ (StudentNotFound(r) \/ StudentsKeyColumnMissing(r))) =>
            response[r].status \in 400..499

\* the responses a request gets when it runs alone with admission number a
\* and fetch result f
AloneResponses(a, f) ==
    IF invalidAdmission(a) THEN {BadRequest}
    ELSE IF f = Rejected THEN {ServerError}
    ELSE {respond(outcome) : outcome \in processStudentData(f, a)}

\* C10: whatever the interleaving, the response of each request is the one
\* it gets alone from its own admission number and its own fetch result.
C10_RequestsIndependent ==
    \A r \in Requests :
        pc[r] = "done" => response[r] \in AloneResponses(admission[r], fetched[r])

\* two requests, both answered 200, for different students and with different
\* profiles
C10_Witness ==
    /\ pc[1] = "done" /\ pc[2] = "done"
    /\ response[1].status = 200
    /\ response[2].status = 200
    /\ admission[1] # admission[2]
    /\ response[1].body.studentInfo.name # response[2].body.studentInfo.name

\* request r has arrived: the handler has read req.query.admission
Arrived(r) == pc[r] # "idle"

\* the parameter is present and is exactly five decimal digits
FiveDecimalDigits(a) ==
    /\ a # UNDEF
    /\ DOMAIN a = 1..5
    /\ \A i \in DOMAIN a : a[i] \in {"0","1","2","3","4","5","6","7","8","9"}

\* this step issues the fetch of request r
FetchIssued(r) == pc[r] # "awaiting" /\ pc'[r] = "awaiting"

\* this step invokes processStudentData for request r
ProcessInvoked(r) == pc[r] = "fetched" /\ pc'[r] # "fetched"

\* C11: a request whose admission parameter is missing or is not exactly five
\* decimal digits is answered 400 as soon as it arrives and stays answered;
\* no fetch is ever issued or completed for it and processStudentData is never
\* invoked for it; a fetch is issued only in a step that has read an
\* admission parameter of exactly five decimal digits, and the parameter a
\* request arrived with never changes afterwards.
C11_ValidatedBeforeFetch ==
    /\ [](\A r \in Requests :
             (Arrived(r) /\ ~FiveDecimalDigits(admission[r])) =>
                 /\ pc[r] = "done"
                 /\ response[r].status = 400
                 /\ fetched[r] = NoData)
    /\ [](\A r \in Requests :
             pc[r] \in {"awaiting", "fetched", "rejected"} =>
                 FiveDecimalDigits(admission[r]))
    /\ [][\A r \in Requests :
             /\ FetchIssued(r) => (pc[r] = "idle" /\ FiveDecimalDigits(admission'[r]))
             /\ ProcessInvoked(r) => FiveDecimalDigits(admission[r])
             /\ Arrived(r) => admission'[r] = admission[r]]_vars

\* a request with six digits has been answered 400 without a fetch while the
\* fetch of a well-formed request is in flight
C11_Witness ==
    \E r, q \in Requests :
        /\ r # q
        /\ pc[r] = "done"
        /\ admission[r] = <<"1","2","3","4","5","6">>
        /\ response[r] = BadRequest
        /\ fetched[r] = NoData
        /\ pc[q] = "awaiting"
        /\ admission[q] = K1

====
